---- MODULE Spec2Model ----
(***************************************************************************)
(* A model of the automaton engine of cellule.js, src/src/renderer.js:     *)
(* the Renderer object, its configuration functions, the construction      *)
(* pass of start(), the timer-driven scan of onRender(), the cell-context  *)
(* accessors and the draw calls.                                           *)
(*                                                                         *)
(* JavaScript runs one handler at a time.  The user callbacks setup(),     *)
(* construct() and loop() are calls out of the engine, so the model keeps  *)
(* the position of the running handler in pc and i and gives one action    *)
(* to every entry into the engine and every return of a callback to it.    *)
(***************************************************************************)
EXTENDS Integers, Sequences, FiniteSets, TLC

(* ------------------------------ bounds -------------------------------- *)

\* The largest grid, in cells, whose scans are followed cell by cell with
\* callbacks that return any state.
MaxCells == 3
\* The largest grid, in cells, that start() materializes in the model.
MaxGrid == 9
\* The largest side of a grid in the topology specification.
MaxDim == 3
\* The largest cell size, in pixels.
MaxCellSize == 2
\* The number of timer firings followed.
MaxTicks == 3
\* The number of calls of start() followed.
MaxStarts == 2
\* The number of timers ever armed.
MaxTimers == 3
\* The number of draw calls followed in the drawing specification.
MaxDraws == 1

\* The states a user callback returns: {alive: false} and {alive: true}.
CellStates == {0, 1}
\* The frame rates the user asks for.
Framerates == {30, 60}
\* The ids of the DOM elements the user names as parent.
ParentIds == {1}
\* The colours the user draws with, as {r, g, b} objects.
Colors == {[r |-> 255, g |-> 0, b |-> 0], [r |-> 10, g |-> 20, b |-> 30]}

(* --------------------------- JavaScript values ------------------------ *)

\* null where a number, a state or an id is expected.
Null == -9
\* undefined, the value of a call of a function that returns nothing.
Undefined == -8
\* null (and undefined) where an object is expected.
NullRef == <<>>

\* The outcome of a call that returns v, and of one that throws.
Return(v) == [value |-> v]
Throw(msg) == [error |-> msg]
\* A call that throws.
Throws(r) == "error" \in DOMAIN r
SetupOnly == "This function can only be called in the setup function."
LoopOnly == "This function can only be called in loop function."
LoopOrConstruct == "This function can only be called in loop or construct function."

VARIABLES
    global,       \* which of setup, construct, loop the sketch defines
    fps, step, currentCell, currentId,
    width, height, cellSize, canvas, parentId, interval, setupDone,
    cells,        \* this.cells: <<>> until createAutomaton, then two buffers
    oldCells,     \* the buffers of an earlier start() that currentCell still refers to
    image,        \* this.image.data, byte p at image[p + 1]
    shown,        \* the bytes last put on the canvas by putImageData
    timers,       \* the timers armed by setInterval and not cleared
    nextTimer,    \* the id setInterval returns next
    pc,           \* "idle", or the callback the engine is waiting in
    i,            \* the loop variable of the pass in progress
    local,        \* the object the running callback holds in a local variable
    starts, ticks, draws,   \* how many start() calls, timer firings, draw calls so far
    calls,        \* the value of currentId at each callback invocation of the pass
    rets,         \* the values the callbacks of the pass have returned, in order
    gen,          \* per cell, the value its callback returned in the last pass completed
    tickSteps,    \* the value of step during each scan that ran to completion
    trace         \* what the last start() has done so far, in order

vars == <<global, fps, step, currentCell, currentId, width, height, cellSize,
          canvas, parentId, interval, setupDone, cells, oldCells, image, shown,
          timers, nextTimer, pc, i, local, starts, ticks, draws, calls, rets,
          gen, tickSteps, trace>>

config == <<width, height, cellSize, parentId>>
ghost == <<calls, rets, gen, tickSteps, trace>>

(* ------------------------------ constructor --------------------------- *)

Init ==
    /\ global \in [setup : BOOLEAN, construct : BOOLEAN, loop : BOOLEAN]
    /\ fps = 30
    /\ step = 0
    /\ currentCell = NullRef
    /\ currentId = -1
    /\ width = 100
    /\ height = 100
    /\ cellSize = 1
    /\ canvas = NullRef
    /\ parentId = Null
    /\ interval = Null
    /\ setupDone = FALSE
    /\ cells = <<>>
    /\ oldCells = <<>>
    /\ image = <<>>
    /\ shown = <<>>
    /\ timers = {}
    /\ nextTimer = 1
    /\ pc = "idle"
    /\ i = 0
    /\ local = NullRef
    /\ starts = 0
    /\ ticks = 0
    /\ draws = 0
    /\ calls = <<>>
    /\ rets = <<>>
    /\ gen = <<>>
    /\ tickSteps = <<>>
    /\ trace = <<>>

(* --------------------------- createAutomaton -------------------------- *)

\* The offsets of the eight neighbors, TOPLEFT first and clockwise.
neighborPos ==
    << <<-1, -1>>, <<0, -1>>, <<1, -1>>, <<1, 0>>,
       <<1, 1>>, <<0, 1>>, <<-1, 1>>, <<-1, 0>> >>

\* The neighborhood of cell (x, y) in buffer b: a reference to a slot of the
\* same buffer, or null where the offset leaves the grid.
computeNeighborhoodWrap(x, y, b) ==
    [k \in 1..Len(neighborPos) |->
        LET newX == (x + neighborPos[k][1]) % width
            newY == (y + neighborPos[k][2]) % height
        IN  [b |-> b, idx |-> newX + newY * width]]

computeNeighborhood(x, y, b) ==
    [k \in 1..Len(neighborPos) |->
        LET newX == x + neighborPos[k][1]
            newY == y + neighborPos[k][2]
        IN  IF newX < 0 \/ newX >= width \/ newY < 0 \/ newY >= height
            THEN NullRef
            ELSE [b |-> b, idx |-> newX + newY * width]]

\* The byte offset in the raster of each pixel row of cell (x, y).
cellPos(x, y) ==
    [j \in 1..cellSize |-> (((j - 1) + y * cellSize) * width + x) * cellSize * 4]

\* The two buffers: every slot with no state, its neighborhood and its pos.
newCells ==
    [b \in 1..2 |->
        [k \in 1..(width * height) |->
            LET x == (k - 1) % width
                y == (k - 1) \div width
            IN  [cell |-> Null,
                 neighborhood |-> computeNeighborhood(x, y, b - 1),
                 pos |-> cellPos(x, y)]]]

\* The image data of the new canvas: 4 bytes a pixel, all 0.
newImage ==
    [p \in 1..((width * cellSize) * (height * cellSize) * 4) |-> 0]

createAutomaton ==
    /\ canvas' = [width |-> width * cellSize, height |-> height * cellSize,
                  parent |-> parentId]
    /\ image' = newImage
    /\ shown' = newImage
    /\ cells' = newCells

(* ------------------------- references to slots ------------------------ *)

\* A reference to slot k of buffer b of this.cells.
Ref(b, k) == [old |-> FALSE, b |-> b, idx |-> k]

\* this.cells[b][k], undefined when the buffer has no slot k.
bind(b, k) == IF k < Len(cells[b + 1]) THEN Ref(b, k) ELSE NullRef

\* The slot a reference denotes: slots of the buffers a later start() replaced
\* live on while currentCell refers to them.
Slot(ref) == (IF ref.old THEN oldCells ELSE cells)[ref.b + 1][ref.idx + 1]

\* currentCell once createAutomaton has replaced this.cells.
firstCell == Ref(step, 0)
staleCell ==
    IF currentCell = NullRef THEN NullRef ELSE [currentCell EXCEPT !.old = TRUE]

staleCells ==
    IF currentCell = NullRef THEN <<>>
    ELSE IF currentCell.old THEN oldCells ELSE cells

(* ------------------------------ accessors ----------------------------- *)

getFramerate == Return(fps)

getId ==
    IF currentId = Null THEN Throw(LoopOrConstruct) ELSE Return(currentId)

getCell ==
    IF currentCell = NullRef THEN Throw(LoopOnly)
    ELSE Return(Slot(currentCell).cell)

\* JSON.stringify and JSON.parse on the states of the model: 0 is
\* {alive: false}, 1 is {alive: true}, 2 is {alive: NaN}, 3 is {alive: null}.
\* NaN is written as null; undefined has no JSON text, and JSON.parse, given
\* undefined, parses the text "undefined" and throws a SyntaxError.
JSONstringify(v) ==
    CASE v = Null -> "null"
      [] v = 0 -> "{alive:false}"
      [] v = 1 -> "{alive:true}"
      [] v = 2 -> "{alive:null}"
      [] v = 3 -> "{alive:null}"
      [] v = Undefined -> "undefined"

JSONparse(s) ==
    CASE s = "null" -> Return(Null)
      [] s = "{alive:false}" -> Return(0)
      [] s = "{alive:true}" -> Return(1)
      [] s = "{alive:null}" -> Return(3)
      [] s = "undefined" -> Throw("SyntaxError")

cloneCell ==
    IF currentCell = NullRef THEN Throw(LoopOnly)
    ELSE JSONparse(JSONstringify(Slot(currentCell).cell))

\* The object a call hands to the callback: ref names the slot that holds the
\* very same object, and is null for an object no slot holds.  cell() returns
\* the object of the bound slot; JSON.parse builds a new object.
cellObject == [ref |-> currentCell, value |-> getCell.value]
cloneObject == [ref |-> NullRef, value |-> cloneCell.value]

getNeighborFresh(index) ==
    IF currentCell = NullRef THEN Throw(LoopOnly)
    ELSE LET r == Slot(currentCell).neighborhood[index + 1]
         IN  IF r = NullRef THEN Return(Null)
             ELSE Return(Slot([old |-> currentCell.old, b |-> 1 - r.b, idx |-> r.idx]).cell)

getNeighbor(index) ==
    IF currentCell = NullRef THEN Throw(LoopOnly)
    ELSE LET r == Slot(currentCell).neighborhood[index + 1]
         IN  IF r = NullRef THEN Return(Null)
             ELSE Return(Slot([old |-> currentCell.old, b |-> r.b, idx |-> r.idx]).cell)

\* The loop() of the README, the Game of Life rule, on states 0 for
\* {alive: false} and 1 for {alive: true}: nbAlive counts the neighbors that
\* are not null and alive.
lifeLoop ==
    LET c == getCell.value
        nbAlive == Cardinality({n \in 0..7 : getNeighbor(n).value # Null
                                              /\ getNeighbor(n).value = 1})
    IN  IF (c = 1 /\ (nbAlive = 2 \/ nbAlive = 3)) \/ (c # 1 /\ nbAlive = 3)
        THEN 1 ELSE 0

\* loop() runs `let c = cloneCell();`.
takeClone ==
    /\ pc = "loop"
    /\ local = NullRef
    /\ ~Throws(cloneCell)
    /\ local' = cloneObject
    /\ UNCHANGED <<global, fps, step, currentCell, currentId, config, canvas,
                   interval, setupDone, cells, oldCells, image, shown, timers,
                   nextTimer, pc, i, starts, ticks, draws, ghost>>

\* loop() runs `c.alive = ...;`, which makes the object c refers to the state
\* v: a slot that holds that object holds v from then on.
mutate(v) ==
    /\ pc = "loop"
    /\ local # NullRef
    /\ local.value # v
    /\ local' = [local EXCEPT !.value = v]
    /\ IF local.ref = NullRef
       THEN UNCHANGED <<cells, oldCells>>
       ELSE IF local.ref.old
            THEN /\ oldCells' = [oldCells EXCEPT
                                   ![local.ref.b + 1][local.ref.idx + 1].cell = v]
                 /\ UNCHANGED cells
            ELSE /\ cells' = [cells EXCEPT
                                ![local.ref.b + 1][local.ref.idx + 1].cell = v]
                 /\ UNCHANGED oldCells
    /\ UNCHANGED <<global, fps, step, currentCell, currentId, config, canvas,
                   interval, setupDone, image, shown, timers, nextTimer, pc, i,
                   starts, ticks, draws, ghost>>

(* ------------------------- configuration calls ------------------------ *)

\* The configuration functions are called by the sketch between handlers or
\* from setup(): a call made while setupDone throws and changes nothing.
\* framerate() may be called from anywhere, the callbacks included.

setCellSize(size) ==
    /\ pc \in {"idle", "setup"}
    /\ cellSize' = (IF setupDone THEN cellSize ELSE size)
    /\ UNCHANGED <<global, local, fps, step, currentCell, currentId, width, height,
                   canvas, parentId, interval, setupDone, cells, oldCells, image,
                   shown, timers, nextTimer, pc, i, starts, ticks, draws, ghost>>

setSize(w, h) ==
    /\ pc \in {"idle", "setup"}
    /\ width' = (IF setupDone THEN width ELSE w)
    /\ height' = (IF setupDone THEN height ELSE h)
    /\ UNCHANGED <<global, local, fps, step, currentCell, currentId, cellSize,
                   canvas, parentId, interval, setupDone, cells, oldCells, image,
                   shown, timers, nextTimer, pc, i, starts, ticks, draws, ghost>>

setParent(id) ==
    /\ pc \in {"idle", "setup"}
    /\ parentId' = (IF setupDone THEN parentId ELSE id)
    /\ UNCHANGED <<global, local, fps, step, currentCell, currentId, width, height,
                   cellSize, canvas, interval, setupDone, cells, oldCells, image,
                   shown, timers, nextTimer, pc, i, starts, ticks, draws, ghost>>

\* The timer setInterval arms for onRender at frame rate f.
Timer(id, f) == [id |-> id, ms |-> 1000 \div f]

\* clearInterval(id): a cleared or unknown id clears nothing.
clearNothing(id) == timers
clearInterval(id) == {t \in timers : t.id # id}

setFramerate(f) ==
    /\ fps' = f
    /\ IF interval # Null
       THEN /\ nextTimer <= MaxTimers
            /\ timers' = clearInterval(interval) \cup {Timer(nextTimer, f)}
            /\ interval' = nextTimer
            /\ nextTimer' = nextTimer + 1
       ELSE UNCHANGED <<timers, interval, nextTimer>>
    /\ UNCHANGED <<global, local, step, currentCell, currentId, config, canvas,
                   setupDone, cells, oldCells, image, shown, pc, i, starts, ticks,
                   draws, ghost>>

(* -------------------------------- start ------------------------------- *)

\* this.interval = setInterval(this.onRender.bind(this), floor(1000 / fps)),
\* the last statement of start().
armTimerDefault ==
    /\ timers' = timers \cup {Timer(nextTimer, 30)}
    /\ interval' = nextTimer
    /\ nextTimer' = nextTimer + 1

armTimer ==
    /\ timers' = timers \cup {Timer(nextTimer, fps)}
    /\ interval' = nextTimer
    /\ nextTimer' = nextTimer + 1

\* start() from createAutomaton on: the grid is materialized, then either
\* construct() is called for cell 0 or, with no construct, the timer is armed.
materializeFrom(done) ==
    /\ width * height <= MaxGrid
    /\ createAutomaton
    /\ currentCell' = staleCell
    /\ oldCells' = staleCells
    /\ rets' = <<>>
    /\ gen' = [k \in 1..(width * height) |-> Null]
    /\ IF global.construct
       THEN /\ pc' = "construct"
            /\ i' = 0
            /\ currentId' = 0
            /\ calls' = <<0>>
            /\ trace' = done \o <<"create", "construct">>
            /\ UNCHANGED <<timers, interval, nextTimer>>
       ELSE /\ pc' = "idle"
            /\ i' = 0
            /\ calls' = <<>>
            /\ armTimer
            /\ trace' = done \o <<"create", "arm">>
            /\ UNCHANGED currentId
    /\ UNCHANGED <<global, local, fps, step, config, setupDone, ticks, draws, tickSteps>>

\* start() is called: setup() is called if the sketch defines it.
start ==
    /\ pc = "idle"
    /\ starts < MaxStarts
    /\ starts' = starts + 1
    /\ IF global.setup
       THEN /\ pc' = "setup"
            /\ trace' = <<"setup">>
            /\ UNCHANGED <<global, local, fps, step, currentCell, currentId, config,
                           canvas, interval, setupDone, cells, oldCells, image,
                           shown, timers, nextTimer, i, ticks, draws, calls, rets,
                           gen, tickSteps>>
       ELSE materializeFrom(<<>>)

\* setup() returns to start().
setupReturn ==
    /\ pc = "setup"
    /\ materializeFrom(trace)
    /\ UNCHANGED starts

\* construct() returns v for cell i: it is stored in the current buffer, then
\* the next cell is visited or the pass ends and the timer is armed.
constructReturn(v) ==
    /\ pc = "construct"
    /\ cells' = [cells EXCEPT ![step + 1][i + 1].cell = v]
    /\ rets' = Append(rets, v)
    /\ gen' = [gen EXCEPT ![i + 1] = v]
    /\ IF i + 1 < width * height
       THEN /\ i' = i + 1
            /\ currentId' = i + 1
            /\ calls' = Append(calls, i + 1)
            /\ trace' = Append(trace, "construct")
            /\ UNCHANGED <<pc, currentCell, oldCells, timers, interval, nextTimer>>
       ELSE /\ i' = 0
            /\ pc' = "idle"
            /\ currentCell' = NullRef
            /\ oldCells' = <<>>
            /\ currentId' = -1
            /\ armTimer
            /\ trace' = Append(trace, "arm")
            /\ UNCHANGED calls
    /\ local' = NullRef
    /\ UNCHANGED <<global, fps, step, config, canvas, setupDone, image, shown,
                   starts, ticks, draws, tickSteps>>

(* -------------------------------- stop -------------------------------- *)

\* stop() is called between handlers.  The class defines no stop method and no
\* method but setFramerate clears a timer, so the call is a TypeError
\* ("stop is not a function") thrown to the caller: no field changes.
stopResult == Throw("TypeError")

stop ==
    /\ pc = "idle"
    /\ trace # <<>>
    /\ trace[Len(trace)] # "stop"
    /\ trace' = Append(trace, "stop")
    /\ UNCHANGED <<global, local, fps, step, currentCell, currentId, config, canvas,
                   interval, setupDone, cells, oldCells, image, shown, timers,
                   nextTimer, pc, i, starts, ticks, draws, calls, rets, gen,
                   tickSteps>>

(* ------------------------------- onRender ----------------------------- *)

\* The buffer onRender writes the states loop() returns into.
sameBuffer == step
nextBuffer == 1 - step

\* The cell visited after cell k.
scanSkip(k) == k + 2
scanNext(k) == k + 1

\* The end of onRender with the roles of the buffers left as they were.
endScanNoFlip ==
    /\ currentCell' = NullRef
    /\ oldCells' = <<>>
    /\ currentId' = -1
    /\ step' = step
    /\ shown' = image
    /\ pc' = "idle"
    /\ i' = 0
    /\ tickSteps' = Append(tickSteps, step)

\* The end of onRender: the context is unbound, the roles of the buffers flip
\* and the image is put on the canvas.
endScan ==
    /\ currentCell' = NullRef
    /\ oldCells' = <<>>
    /\ currentId' = -1
    /\ step' = 1 - step
    /\ shown' = image
    /\ pc' = "idle"
    /\ i' = 0
    /\ tickSteps' = Append(tickSteps, step)

onRenderReentrant(t) ==
    /\ pc \in {"idle", "loop"}
    /\ t \in timers
    /\ ticks < MaxTicks
    /\ ticks' = ticks + 1
    /\ IF ~global.loop
       THEN UNCHANGED <<step, currentCell, currentId, cells, oldCells, shown, pc,
                        i, ghost>>
       ELSE IF 0 < width * height
            THEN /\ currentCell' = bind(step, 0)
                 /\ oldCells' = <<>>
                 /\ currentId' = 0
                 /\ pc' = "loop"
                 /\ i' = 0
                 /\ calls' = <<0>>
                 /\ rets' = <<>>
                 /\ UNCHANGED <<step, cells, shown, gen, tickSteps, trace>>
            ELSE /\ endScan
                 /\ calls' = <<>>
                 /\ rets' = <<>>
                 /\ UNCHANGED <<cells, gen, trace>>
    /\ UNCHANGED <<global, local, fps, config, canvas, interval, setupDone, image,
                   timers, nextTimer, starts, draws>>

\* Timer t fires while no handler runs: onRender binds cell 0 and calls loop().
onRender(t) ==
    /\ pc = "idle"
    /\ t \in timers
    /\ ticks < MaxTicks
    /\ ticks' = ticks + 1
    /\ IF ~global.loop
       THEN UNCHANGED <<step, currentCell, currentId, cells, oldCells, shown, pc,
                        i, ghost>>
       ELSE IF 0 < width * height
            THEN /\ currentCell' = bind(step, 0)
                 /\ oldCells' = <<>>
                 /\ currentId' = 0
                 /\ pc' = "loop"
                 /\ i' = 0
                 /\ calls' = <<0>>
                 /\ rets' = <<>>
                 /\ UNCHANGED <<step, cells, shown, gen, tickSteps, trace>>
            ELSE /\ endScan
                 /\ calls' = <<>>
                 /\ rets' = <<>>
                 /\ UNCHANGED <<cells, gen, trace>>
    /\ UNCHANGED <<global, local, fps, config, canvas, interval, setupDone, image,
                   timers, nextTimer, starts, draws>>

\* loop() returns v for cell i: it is stored in the next buffer, then the next
\* cell is bound or the scan ends.  A slot that does not exist makes the store
\* throw a TypeError, which ends onRender there.
loopReturn(v) ==
    /\ pc = "loop"
    /\ IF i >= Len(cells[nextBuffer + 1])
       THEN /\ pc' = "idle"
            /\ i' = 0
            /\ UNCHANGED <<step, currentCell, currentId, cells, oldCells, shown,
                           ghost>>
       ELSE /\ cells' = [cells EXCEPT ![nextBuffer + 1][i + 1].cell = v]
            /\ rets' = Append(rets, v)
            /\ IF scanNext(i) < width * height
               THEN /\ currentCell' = bind(step, scanNext(i))
                    /\ currentId' = scanNext(i)
                    /\ i' = scanNext(i)
                    /\ calls' = Append(calls, scanNext(i))
                    /\ UNCHANGED <<step, oldCells, shown, pc, gen, tickSteps,
                                   trace>>
               ELSE /\ endScan
                    /\ gen' = rets'
                    /\ UNCHANGED <<calls, trace>>
    /\ local' = NullRef
    /\ UNCHANGED <<global, fps, config, canvas, interval, setupDone, image,
                   timers, nextTimer, starts, ticks, draws>>

\* A callback throws and nothing catches it: the handler that called it ends
\* where it stands.
callbackThrowsFlip ==
    /\ pc \in {"construct", "loop"}
    /\ pc' = "idle"
    /\ i' = 0
    /\ local' = NullRef
    /\ step' = 1 - step
    /\ UNCHANGED <<global, fps, currentCell, currentId, config, canvas,
                   interval, setupDone, cells, oldCells, image, shown, timers,
                   nextTimer, starts, ticks, draws, ghost>>

callbackThrows ==
    /\ pc \in {"construct", "loop"}
    /\ pc' = "idle"
    /\ i' = 0
    /\ local' = NullRef
    /\ UNCHANGED <<global, fps, step, currentCell, currentId, config, canvas,
                   interval, setupDone, cells, oldCells, image, shown, timers,
                   nextTimer, starts, ticks, draws, ghost>>

(* ------------------------------ draw calls ---------------------------- *)

\* What a draw call does before it stores anything.
setPointResult ==
    IF currentCell = NullRef THEN Throw(LoopOnly) ELSE Return(Null)

\* setBackground calls setPoint for every pixel of a cell: it throws when the
\* first of these calls does.
setBackgroundResult ==
    IF cellSize > 0 THEN setPointResult ELSE Return(Null)

\* The stores of setPoint(x, y, c) as <<byte offset, value>>: none when
\* pos[y] is undefined, since p is then NaN.
pointOffsetBytes(x, y) == Slot(currentCell).pos[y + 1] + x
pointOffset(x, y) == Slot(currentCell).pos[y + 1] + x * 4

pointStores(x, y, c) ==
    IF y + 1 \in DOMAIN Slot(currentCell).pos
    THEN LET p == pointOffset(x, y)
         IN  {<<p, c.r>>, <<p + 1, c.g>>, <<p + 2, c.b>>, <<p + 3, 255>>}
    ELSE {}

\* image.data after the stores ws: a store outside the array is ignored.
stored(ws) ==
    LET at == {w[1] : w \in ws}
    IN  [q \in DOMAIN image |->
            IF q - 1 \in at
            THEN (CHOOSE w \in ws : w[1] = q - 1)[2]
            ELSE image[q]]

setPoint(x, y, c) ==
    /\ draws < MaxDraws
    /\ draws' = draws + 1
    /\ image' = (IF setPointResult = Throw(LoopOnly) THEN image
                 ELSE stored(pointStores(x, y, c)))
    /\ UNCHANGED <<global, local, fps, step, currentCell, currentId, config, canvas,
                   interval, setupDone, cells, oldCells, shown, timers,
                   nextTimer, pc, i, starts, ticks, ghost>>

setBackground(c) ==
    /\ draws < MaxDraws
    /\ draws' = draws + 1
    /\ image' = (IF setBackgroundResult = Throw(LoopOnly) THEN image
                 ELSE stored(UNION {pointStores(x, y, c) :
                                      x \in 0..(cellSize - 1), y \in 0..(cellSize - 1)}))
    /\ UNCHANGED <<global, local, fps, step, currentCell, currentId, config, canvas,
                   interval, setupDone, cells, oldCells, shown, timers,
                   nextTimer, pc, i, starts, ticks, ghost>>

(* --------------------------- specifications --------------------------- *)

\* The sizes the sketch asks for, at most MaxCells cells.
Sizes == {wh \in (1..MaxCells) \X (1..MaxCells) : wh[1] * wh[2] <= MaxCells}

\* The configuration calls of the sketch come before the grid they configure:
\* inside setup(), or before the first start().
Configuring == pc = "setup" \/ starts = 0

\* The engine under a sketch that sizes the grid in setup() and whose
\* construct() and loop() return any state.
Next ==
    \/ start
    \/ \E wh \in Sizes : Configuring /\ setSize(wh[1], wh[2])
    \/ setupReturn
    \/ \E v \in CellStates : constructReturn(v)
    \/ \E t \in timers : onRender(t)
    \/ \E v \in CellStates : loopReturn(v)

Spec == Init /\ [][Next]_vars

\* The sizes asked for where the configuration calls are followed.
SmallSizes == {<<1, 1>>, <<2, 1>>, <<1, 2>>}

\* A sketch that defines setup(), construct() and loop().
InitConfig == Init /\ global = [setup |-> TRUE, construct |-> TRUE, loop |-> TRUE]

\* The engine under a sketch that calls the configuration functions and
\* framerate() at any time between handlers, also after start(); construct()
\* returns {alive: false} and loop() returns {alive: true} for every cell.
NextConfig ==
    \/ start
    \/ \E wh \in SmallSizes : setSize(wh[1], wh[2])
    \/ \E size \in 1..MaxCellSize : setCellSize(size)
    \/ \E id \in ParentIds : setParent(id)
    \/ \E f \in Framerates : pc \in {"idle", "setup"} /\ setFramerate(f)
    \/ setupReturn
    \/ constructReturn(0)
    \/ \E t \in timers : onRender(t)
    \/ loopReturn(1)

SpecConfig == InitConfig /\ [][NextConfig]_vars

\* The sizes asked for where the draw calls are followed.
DrawSizes == {<<1, 1>>, <<2, 1>>, <<2, 2>>}

\* The engine under a sketch that sizes the grid and its cells in setup() and
\* draws from construct() and loop(), with coordinates up to the largest cell
\* size; both callbacks return {alive: false}.  One start() is followed.
NextDraw ==
    \/ starts = 0 /\ start
    \/ \E wh \in DrawSizes : pc = "setup" /\ setSize(wh[1], wh[2])
    \/ \E size \in 1..MaxCellSize : pc = "setup" /\ setCellSize(size)
    \/ setupReturn
    \/ constructReturn(0)
    \/ \E t \in timers : onRender(t)
    \/ loopReturn(0)
    \/ \E x, y \in 0..(MaxCellSize - 1), c \in Colors :
          pc \in {"construct", "loop"} /\ setPoint(x, y, c)
    \/ \E c \in Colors : pc \in {"construct", "loop"} /\ setBackground(c)

SpecDraw == InitConfig /\ [][NextDraw]_vars

\* The engine under a sketch that sizes the grid in setup(), whose construct()
\* returns id() and whose loop() returns cell() + width * height, so that no
\* two slots hold the same state.  One start() is followed.
NextTopo ==
    \/ starts = 0 /\ start
    \/ \E w, h \in 1..MaxDim : pc = "setup" /\ setSize(w, h)
    \/ setupReturn
    \/ constructReturn(getId.value)
    \/ \E t \in timers : onRender(t)
    \/ loopReturn(getCell.value + width * height)

SpecTopo == InitConfig /\ [][NextTopo]_vars

\* The engine under the Game of Life sketch of the README: setup() sizes the
\* grid, construct() returns any of the two states for each cell and loop() is
\* the README's rule.  One start() is followed.
NextLife ==
    \/ starts = 0 /\ start
    \/ \E w, h \in 1..MaxDim : pc = "setup" /\ setSize(w, h)
    \/ setupReturn
    \/ \E v \in CellStates : constructReturn(v)
    \/ \E t \in timers : onRender(t)
    \/ loopReturn(lifeLoop)

SpecLife == InitConfig /\ [][NextLife]_vars

\* The states the callbacks return where clones are followed: {alive: false},
\* {alive: true}, {alive: NaN}, and undefined (a callback with no return).
CloneStates == {0, 1, 2, Undefined}

\* The engine under a sketch whose loop() may take a clone of its cell and
\* assign to it before it returns.  One start() is followed.
NextClone ==
    \/ starts = 0 /\ start
    \/ \E wh \in SmallSizes : pc = "setup" /\ setSize(wh[1], wh[2])
    \/ setupReturn
    \/ \E v \in CloneStates : constructReturn(v)
    \/ \E t \in timers : onRender(t)
    \/ \E v \in CloneStates : loopReturn(v)
    \/ takeClone
    \/ \E v \in CellStates : mutate(v)

SpecClone == InitConfig /\ [][NextClone]_vars

\* The engine under a sketch that calls framerate() at any time, also from
\* inside construct() and loop(), and on which start() is called again, so that
\* several timers are armed.
NextOverlap ==
    \/ start
    \/ \E wh \in SmallSizes : pc = "setup" /\ setSize(wh[1], wh[2])
    \/ \E f \in Framerates : setFramerate(f)
    \/ setupReturn
    \/ constructReturn(0)
    \/ \E t \in timers : onRender(t)
    \/ loopReturn(1)

SpecOverlap == InitConfig /\ [][NextOverlap]_vars

\* The engine under a sketch that sizes the grid and its cells in setup(),
\* whose construct() returns {alive: false} and whose loop() draws inside its
\* cell and returns {alive: true}.  One start() is followed.
NextFrame ==
    \/ starts = 0 /\ start
    \/ \E wh \in DrawSizes : pc = "setup" /\ setSize(wh[1], wh[2])
    \/ \E size \in 1..MaxCellSize : pc = "setup" /\ setCellSize(size)
    \/ setupReturn
    \/ constructReturn(0)
    \/ \E t \in timers : onRender(t)
    \/ loopReturn(1)
    \/ \E x, y \in 0..(cellSize - 1), c \in Colors : pc = "loop" /\ setPoint(x, y, c)
    \/ \E c \in Colors : pc = "loop" /\ setBackground(c)

SpecFrame == InitConfig /\ [][NextFrame]_vars

\* The engine under a sketch whose construct() and loop() return any state
\* and whose loop() may throw instead.  One start() is followed.
NextThrow ==
    \/ starts = 0 /\ start
    \/ \E wh \in Sizes : pc = "setup" /\ setSize(wh[1], wh[2])
    \/ setupReturn
    \/ \E v \in CellStates : constructReturn(v)
    \/ \E t \in timers : onRender(t)
    \/ \E v \in CellStates : loopReturn(v)
    \/ pc = "loop" /\ callbackThrows

SpecThrow == InitConfig /\ [][NextThrow]_vars

\* The engine under a sketch that sizes the grid in setup() and on which
\* stop() is called between handlers, after a start() has begun.
NextStop ==
    \/ start
    \/ \E wh \in SmallSizes : pc = "setup" /\ setSize(wh[1], wh[2])
    \/ \E f \in Framerates : pc \in {"idle", "setup"} /\ setFramerate(f)
    \/ setupReturn
    \/ constructReturn(0)
    \/ \E t \in timers : onRender(t)
    \/ loopReturn(1)
    \/ stop

SpecStop == InitConfig /\ [][NextStop]_vars

(* ------------------------------- claims ------------------------------- *)

\* The sequence 0, 1, ..., n - 1.
UpTo(n) == [k \in 1..n |-> k - 1]

\* C1: generation consistency.  While loop() runs for cell i, cell() returns
\* the value the callback of cell i returned in the last pass completed
\* (construct() before the first tick), and neighbor(k) returns, for every
\* present neighbor j, the value the callback of cell j returned in that pass:
\* no value stored earlier in the same tick is visible.
C1_GenerationConsistency ==
    pc = "loop" =>
        /\ getCell = Return(gen[i + 1])
        /\ \A k \in 0..7 :
              LET r == Slot(currentCell).neighborhood[k + 1]
              IN  r # NullRef => getNeighbor(k) = Return(gen[r.idx + 1])

\* C1 witness: in a second or later tick, a neighbor visited earlier in the
\* tick already has a new state stored that differs from the one neighbor()
\* returns.
C1_Witness ==
    /\ pc = "loop"
    /\ Len(tickSteps) >= 1
    /\ \E k \in 0..7 :
          LET r == Slot(currentCell).neighborhood[k + 1]
          IN  /\ r # NullRef
              /\ r.idx < i
              /\ cells[nextBuffer + 1][r.idx + 1].cell # getNeighbor(k).value

C3_ScanOrder ==
    /\ pc = "loop" =>
          /\ calls = UpTo(i + 1)
          /\ getId = Return(i)
          /\ currentCell = Ref(step, i)
          /\ Len(rets) = i
          /\ \A k \in 1..i : cells[nextBuffer + 1][k].cell = rets[k]
    /\ (pc = "idle" /\ Len(tickSteps) > 0 /\ calls # <<>>) =>
          /\ calls = UpTo(width * height)
          /\ Len(rets) = width * height
          /\ Len(cells[step + 1]) = width * height
          /\ \A k \in 1..(width * height) : cells[step + 1][k].cell = rets[k]

\* C3 witness: a scan of a grid of three cells has ended.
C3_Witness ==
    /\ pc = "idle"
    /\ Len(tickSteps) > 0
    /\ Len(calls) = 3
    /\ width = 3

\* start() has run to its end.
Started == trace # <<>> /\ trace[Len(trace)] = "arm"

\* C4: a setup-only configuration call made after start() has run throws and
\* leaves width, height, cellSize and parentId as they were; the same call made
\* inside setup() takes effect.
C4_SetupOnly ==
    [][/\ (/\ Started
           /\ pc = "idle"
           /\ \/ \E wh \in SmallSizes : setSize(wh[1], wh[2])
              \/ \E size \in 1..MaxCellSize : setCellSize(size)
              \/ \E id \in ParentIds : setParent(id))
          => UNCHANGED config
       /\ \A wh \in SmallSizes :
             (pc = "setup" /\ setSize(wh[1], wh[2]))
                => (width' = wh[1] /\ height' = wh[2])]_vars

\* C5: outside a scan and a construction pass every cell-context accessor and
\* every draw call throws.
C5_OutsideScanFails ==
    pc = "idle" =>
        /\ Throws(getCell)
        /\ Throws(cloneCell)
        /\ \A k \in 0..7 : Throws(getNeighbor(k))
        /\ Throws(getId)
        /\ Throws(setPointResult)
        /\ Throws(setBackgroundResult)

\* The offset of neighbor index n.
NeighborOffset(n) ==
    << <<-1, -1>>, <<0, -1>>, <<1, -1>>, <<1, 0>>,
       <<1, 1>>, <<0, 1>>, <<-1, 1>>, <<-1, 0>> >>[n + 1]

\* Whether (x, y) is a cell of the grid.
InGrid(x, y) == x \in 0..(width - 1) /\ y \in 0..(height - 1)

\* C6: neighbor topology.  In both buffers, neighbor n of cell (x, y) is absent
\* exactly when (x + dx, y + dy) is outside the grid and is otherwise the slot
\* (x + dx) + (y + dy) * width of the same buffer; while loop() runs for a
\* cell, neighbor(n) returns null or the state of that slot of the current
\* buffer.
C6_NeighborTopology ==
    /\ cells # <<>> =>
          \A b \in 0..1, k \in 0..(width * height - 1), n \in 0..7 :
             LET nx == (k % width) + NeighborOffset(n)[1]
                 ny == (k \div width) + NeighborOffset(n)[2]
                 r == cells[b + 1][k + 1].neighborhood[n + 1]
             IN  IF InGrid(nx, ny) THEN r = [b |-> b, idx |-> nx + ny * width]
                 ELSE r = NullRef
    /\ pc = "loop" =>
          \A n \in 0..7 :
             LET nx == (i % width) + NeighborOffset(n)[1]
                 ny == (i \div width) + NeighborOffset(n)[2]
             IN  getNeighbor(n) =
                    (IF InGrid(nx, ny)
                     THEN Return(cells[step + 1][nx + ny * width + 1].cell)
                     ELSE Return(Null))

\* C6 witness: loop() runs for the center of a 3 x 3 grid in the second tick
\* and its eight neighbors are present, with eight different states.
C6_Witness ==
    /\ pc = "loop"
    /\ width = 3
    /\ height = 3
    /\ i = 4
    /\ Len(tickSteps) = 1
    /\ \A n \in 0..7 : getNeighbor(n).value # Null
    /\ Cardinality({getNeighbor(n).value : n \in 0..7}) = 8

\* The byte offsets of raster pixel (px, py), the raster being
\* width * cellSize pixels wide.
PixelBytes(px, py) ==
    LET o == (py * (width * cellSize) + px) * 4
    IN  <<o, o + 1, o + 2, o + 3>>

\* The raster pixel of pixel (lx, ly) of cell k.
CellPixel(k, lx, ly) ==
    <<(k % width) * cellSize + lx, (k \div width) * cellSize + ly>>

\* The image after pixel pxy has been given colour c and alpha 255.
Painted(img, pxy, c) ==
    LET o == PixelBytes(pxy[1], pxy[2])
    IN  [q \in DOMAIN img |->
            IF q - 1 = o[1] THEN c.r
            ELSE IF q - 1 = o[2] THEN c.g
            ELSE IF q - 1 = o[3] THEN c.b
            ELSE IF q - 1 = o[4] THEN 255
            ELSE img[q]]

\* The image after every pixel of cell k has been given colour c.
PaintedBlock(img, k, c) ==
    LET block == {CellPixel(k, lx, ly) : lx, ly \in 0..(cellSize - 1)}
        bytes == UNION {{PixelBytes(pxy[1], pxy[2])[m] : m \in 1..4} : pxy \in block}
    IN  [q \in DOMAIN img |->
            IF q - 1 \in bytes
            THEN <<c.r, c.g, c.b, 255>>[((q - 1) % 4) + 1]
            ELSE img[q]]

\* C7: pixel confinement.  The raster has width * cellSize by height * cellSize
\* pixels of 4 bytes; while cell i is bound, point(lx, ly, c) with lx and ly
\* below cellSize stores r, g, b, 255 in the 4 bytes of raster pixel
\* (x * cellSize + lx, y * cellSize + ly) and changes no other byte, and
\* background(c) does so for every pixel of the block of cell i and changes no
\* byte outside the block.
C7_PixelConfinement ==
    [][/\ cells' # <<>> =>
             Len(image') = (width' * cellSize') * (height' * cellSize') * 4
       /\ \A lx, ly \in 0..(cellSize - 1), c \in Colors :
             (pc = "loop" /\ setPoint(lx, ly, c))
                => image' = Painted(image, CellPixel(i, lx, ly), c)
       /\ \A c \in Colors :
             (pc = "loop" /\ setBackground(c))
                => image' = PaintedBlock(image, i, c)]_vars

\* C7 witness: on a 2 x 2 grid of cells of 2 x 2 pixels, the block of cell
\* (0, 0) at the raster origin is opaque red and every other byte is 0.
C7_Witness ==
    /\ width = 2
    /\ height = 2
    /\ cellSize = 2
    /\ cells # <<>>
    /\ \A px, py \in 0..3 :
          LET o == PixelBytes(px, py)
          IN  IF px < 2 /\ py < 2
              THEN <<image[o[1] + 1], image[o[2] + 1], image[o[3] + 1], image[o[4] + 1]>>
                      = <<255, 0, 0, 255>>
              ELSE <<image[o[1] + 1], image[o[2] + 1], image[o[3] + 1], image[o[4] + 1]>>
                      = <<0, 0, 0, 0>>

\* C8 as stated: while construct() runs for cell i a context is bound to cell i
\* and a draw call succeeds.
C8_DrawInConstruct ==
    pc = "construct" =>
        /\ currentCell = Ref(step, i)
        /\ ~Throws(setPointResult)
        /\ ~Throws(setBackgroundResult)

\* C8 as amended: while construct() runs for cell i, id() returns i and no
\* context is bound: cell(), point() and background() throw, and the raster of
\* the new canvas stays as created, all bytes 0.
C8_NoContextInConstruct ==
    pc = "construct" =>
        /\ getId = Return(i)
        /\ currentCell = NullRef
        /\ Throws(getCell)
        /\ Throws(setPointResult)
        /\ Throws(setBackgroundResult)
        /\ \A q \in DOMAIN image : image[q] = 0

\* C8 witness: construct() has issued draw calls and runs for a second cell.
C8_Witness == pc = "construct" /\ draws > 0 /\ i > 0

\* The order of a start() on a grid of n cells.
StartOrder(n) == <<"setup", "create">> \o [k \in 1..n |-> "construct"] \o <<"arm">>

\* C9: start-up order.  start() calls setup(), then materializes the grid, then
\* calls construct() once for each cell 0 .. width * height - 1 in order and
\* stores each result in the current buffer, and then arms the timer, with
\* interval floor(1000 / fps); no loop() runs before that.
C9_StartupOrder ==
    /\ pc = "setup" => trace = <<"setup">> /\ Cardinality(timers) = starts - 1
    /\ pc = "construct" =>
          /\ trace = SubSeq(StartOrder(width * height), 1, i + 3)
          /\ Cardinality(timers) = starts - 1
          /\ Len(cells[1]) = width * height
          /\ Len(cells[2]) = width * height
          /\ calls = UpTo(i + 1)
          /\ getId = Return(i)
          /\ \A k \in 1..(width * height) :
                cells[step + 1][k].cell = (IF k <= i THEN rets[k] ELSE Null)
    /\ (pc \in {"idle", "loop"} /\ starts > 0) =>
          /\ trace = StartOrder(Len(cells[1]))
          /\ Cardinality(timers) = starts
          /\ \E t \in timers : t.id = interval /\ t.ms = 1000 \div fps

\* C9 witness: setup() has set 60 frames a second, construct() has run for
\* the two cells of the grid and the timer is armed with 16 ms.
C9_Witness ==
    /\ pc = "idle"
    /\ starts = 1
    /\ ticks = 0
    /\ fps = 60
    /\ trace = StartOrder(2)
    /\ timers = {[id |-> 1, ms |-> 16]}

\* C10: framerate(f) while a timer is armed clears that timer and arms one new
\* timer with interval floor(1000 / f); the engine stays running, and step and
\* the buffers are unchanged.  With no timer armed it records f and arms none.
C10_Framerate ==
    [][\A f \in Framerates :
          setFramerate(f) =>
             /\ fps' = f
             /\ step' = step
             /\ cells' = cells
             /\ pc' = pc
             /\ IF interval # Null
                THEN /\ interval' # Null
                     /\ interval' # interval
                     /\ timers \ timers' = {t \in timers : t.id = interval}
                     /\ timers' \ timers = {[id |-> interval', ms |-> 1000 \div f]}
                     /\ Cardinality(timers') = Cardinality(timers)
                ELSE /\ timers' = timers
                     /\ interval' = Null]_vars

\* C10 witness: after one start(), framerate(60) was called while the timer
\* was armed: one timer is armed, a new one, with 16 ms.
C10_Witness ==
    /\ starts = 1
    /\ interval # Null
    /\ interval > 1
    /\ fps = 60
    /\ timers = {[id |-> interval, ms |-> 16]}

\* stop() has returned and no start() has been called since.
Stopped == trace # <<>> /\ trace[Len(trace)] = "stop"

\* C11: stop() cancels the pending timer and the scheduler is idle: after
\* stop() and until the next start(), no timer is armed and no scan runs.
C11_StopCancels ==
    Stopped => (timers = {} /\ interval = Null /\ pc = "idle" /\ ~Throws(stopResult))

\* The number of cells alive among the up to eight cells around (x, y) in
\* the generation prev, a sequence of states in row-major order.
AliveAround(prev, x, y) ==
    Cardinality({d \in ((-1)..1) \X ((-1)..1) :
                    /\ d # <<0, 0>>
                    /\ InGrid(x + d[1], y + d[2])
                    /\ prev[(x + d[1]) + (y + d[2]) * width + 1] = 1})

\* The Game of Life successor of cell k of generation prev, edges bounded.
LifeSuccessor(prev, k) ==
    LET n == AliveAround(prev, k % width, k \div width)
    IN  IF prev[k + 1] = 1
        THEN (IF n \in {2, 3} THEN 1 ELSE 0)
        ELSE (IF n = 3 THEN 1 ELSE 0)

\* The states of buffer b in row-major order.
Generation(b) == [k \in 1..Len(cells[b + 1]) |-> cells[b + 1][k].cell]

\* C12: with the README's loop(), when a tick has ended the current buffer
\* holds, for every cell, the Game of Life successor of the generation the
\* tick started from, which the other buffer still holds; so a grid with only
\* its center alive becomes all dead.
C12_GameOfLife ==
    (pc = "idle" /\ Len(tickSteps) >= 1) =>
        \A k \in 0..(width * height - 1) :
            Generation(step)[k + 1] = LifeSuccessor(Generation(1 - step), k)

\* C12 witness: after the first tick of a 3 x 3 grid constructed with only
\* its center alive, every cell is dead.
C12_Witness ==
    /\ pc = "idle"
    /\ Len(tickSteps) = 1
    /\ width = 3
    /\ height = 3
    /\ Generation(1 - step) = <<0, 0, 0, 0, 1, 0, 0, 0, 0>>
    /\ Generation(step) = <<0, 0, 0, 0, 0, 0, 0, 0, 0>>

\* What the callback can read while it runs: cell() and neighbor(0..7).
Readable == <<getCell, [n \in 0..7 |-> getNeighbor(n)]>>

\* C13: while loop() runs for a cell, cloneCell() returns a value equal to
\* cell(); taking the clone and assigning to it change neither what cell()
\* and neighbor() return nor any slot of the buffers, so that later cells of
\* the tick read what they would have read.
C13_CloneIndependent ==
    [][/\ pc' = "loop" => cloneCell' = getCell'
       /\ takeClone => (Readable' = Readable /\ local'.value = getCell.value)
       /\ \A v \in CellStates :
             mutate(v) => (Readable' = Readable /\ cells' = cells)]_vars

\* C13 for the states JSON writes exactly ({alive: false}, {alive: true},
\* {alive: null}, null): the clone equals cell(), and assigning to it changes
\* nothing the callbacks read.
C13_CloneOfJsonState ==
    [][/\ (pc' = "loop" /\ getCell'.value \in {Null, 0, 1, 3})
             => cloneCell' = getCell'
       /\ takeClone =>
             /\ Readable' = Readable
             /\ getCell.value \in {Null, 0, 1, 3} => local'.value = getCell.value
       /\ \A v \in CellStates :
             mutate(v) => (Readable' = Readable /\ cells' = cells)]_vars

\* C14: no tick overlap.  While a scan is in progress no timer firing and no
\* start() is handled and step keeps its value; the scan moves from a cell to
\* the next one; a scan begins at cell 0 from the idle engine; and step
\* flips only when a scan ends that has called loop() for every cell in
\* order, so that a generation is complete before the next one is begun.
C14_NoOverlap ==
    [][/\ pc = "loop" => (ticks' = ticks /\ starts' = starts)
       /\ (pc = "loop" /\ pc' = "loop") =>
             (step' = step /\ cells'[step + 1] = cells[step + 1]
                /\ (i' = i \/ i' = i + 1))
       /\ ticks' # ticks => (pc = "idle" /\ i' = 0 /\ rets' = <<>>)
       /\ step' # step =>
             /\ pc = "loop"
             /\ pc' = "idle"
             /\ calls = UpTo(width * height)
             /\ Len(rets') = width * height]_vars

\* C14 witness: start() has run twice, so that two timers are armed, the
\* timer was replaced by framerate(), and a second scan has reached cell 1.
C14_Witness ==
    /\ pc = "loop"
    /\ i = 1
    /\ starts = 2
    /\ Cardinality(timers) = 2
    /\ interval = 3
    /\ Len(tickSteps) >= 1

\* C15: dimensions are immutable once the grid is materialized.  Outside a
\* setup() that precedes a new materialization, no step changes width, height
\* or cellSize once the buffers exist; both buffers have width * height slots
\* and the raster width * cellSize by height * cellSize pixels; and every cell
\* a scan binds is an existing slot.
C15_DimensionsImmutable ==
    [][/\ (cells # <<>> /\ pc # "setup") =>
             (width' = width /\ height' = height /\ cellSize' = cellSize)
       /\ (cells' # <<>> /\ pc' # "setup") =>
             /\ Len(cells'[1]) = width' * height'
             /\ Len(cells'[2]) = width' * height'
             /\ Len(image') = (width' * cellSize') * (height' * cellSize') * 4
       /\ pc' = "loop" => currentCell' # NullRef]_vars

\* A step of a tick: the timer fires, or a scan is in progress.
TickStep == pc = "loop" \/ (pc = "idle" /\ ticks' # ticks)

\* The byte offsets of the block of cell k in the raster.
CellBytes(k) ==
    UNION {{PixelBytes(CellPixel(k, lx, ly)[1], CellPixel(k, lx, ly)[2])[m] : m \in 1..4} :
              lx \in 0..(cellSize - 1), ly \in 0..(cellSize - 1)}

\* C16: the frame of a tick.  A step of a tick leaves the states of the
\* current buffer, the neighborhood and pos of every slot, the dimensions, the
\* frame rate and the timers as they are, and changes a raster byte only if
\* the step is a draw call and the byte lies in the block of the bound cell:
\* what a tick changes is the states of the next buffer, the binding, step and
\* the bytes drawn to.
C16_TickFrame ==
    [][TickStep =>
          /\ \A k \in 1..Len(cells[step + 1]) :
                cells'[step + 1][k].cell = cells[step + 1][k].cell
          /\ \A b \in 1..2 : \A k \in 1..Len(cells[b]) :
                /\ cells'[b][k].neighborhood = cells[b][k].neighborhood
                /\ cells'[b][k].pos = cells[b][k].pos
          /\ Len(cells'[1]) = Len(cells[1]) /\ Len(cells'[2]) = Len(cells[2])
          /\ UNCHANGED <<global, fps, config, canvas, interval, setupDone, timers,
                         nextTimer, starts>>
          /\ Len(image') = Len(image)
          /\ \A q \in DOMAIN image :
                image'[q] # image[q] => (draws' = draws + 1 /\ q - 1 \in CellBytes(i))]_vars

\* C16 witness: the second tick is at its last cell; the states of the
\* current buffer are those the first tick returned, and a pixel drawn in the
\* first tick is still in the raster.
C16_Witness ==
    /\ pc = "loop"
    /\ Len(tickSteps) = 1
    /\ width * height = 4
    /\ i = 3
    /\ draws = 1
    /\ shown = image
    /\ \E q \in DOMAIN image : image[q] # 0
    /\ \A k \in 1..4 : Generation(step)[k] = 1

\* C17: at most one timer is armed at any time, the one this.interval names.
C17_OneTimer ==
    /\ Cardinality(timers) <= 1
    /\ \A t \in timers : t.id = interval /\ t.ms = 1000 \div fps

\* A scan has been abandoned at cell k and no later scan has begun.
AbandonedAt(k) == pc = "idle" /\ Len(calls) = k + 1 /\ Len(rets) = k

\* The scan in progress reads the states of the last pass completed, step
\* has flipped once for each scan that ran to its end, and after a scan
\* abandoned at cell k the current buffer is as that pass left it while the
\* next buffer holds the values returned for cells 0 .. k - 1.
ReadsLastGeneration ==
    /\ cells # <<>> => step = Len(tickSteps) % 2
    /\ pc = "loop" =>
          /\ getCell = Return(gen[i + 1])
          /\ \A n \in 0..7 :
                LET r == Slot(currentCell).neighborhood[n + 1]
                IN  (r # NullRef) => (getNeighbor(n) = Return(gen[r.idx + 1]))
    /\ \A k \in 0..(width * height - 1) :
          AbandonedAt(k) =>
             /\ Generation(step) = gen
             /\ \A j \in 1..k : cells[nextBuffer + 1][j].cell = rets[j]

\* C18: when loop() throws for cell k the tick is abandoned: step and both
\* buffers are as they were when loop() was called, the next buffer holding
\* the values returned for cells 0 .. k - 1; step has flipped once for each
\* scan that ran to its end and never otherwise; the next firing starts again
\* at cell 0 of the same buffer; and every scan, also one that follows an
\* abandoned one, reads the states of the last pass that was completed.
C18_AbandonedTick ==
    [][/\ ReadsLastGeneration'
       /\ (pc = "loop" /\ callbackThrows) =>
             (step' = step /\ cells' = cells /\ timers' = timers)
       /\ ticks' # ticks =>
             (step' = step /\ i' = 0 /\ currentCell' = Ref(step, 0))]_vars

\* C18 witness: on a grid of two cells the first tick was abandoned at cell 1
\* after a value was stored for cell 0 that differs from the state of cell 0,
\* and the second firing evaluates cell 1 again.
C18_Witness ==
    /\ pc = "loop"
    /\ width * height = 2
    /\ i = 1
    /\ ticks = 2
    /\ tickSteps = <<>>
    /\ cells[nextBuffer + 1][1].cell # gen[1]

====
